---------------------------- MODULE Spec2Model ----------------------------
(***************************************************************************)
(* A model of website.py (akkajoe/lightVisualization): the identifier      *)
(* canonicalizer, the confidence scorer, the quality-table loader, the     *)
(* confidence join, direction extraction / normalization and the control   *)
(* flow of main().                                                         *)
(*                                                                         *)
(* Python strings are TLA+ strings, read character by character with       *)
(* SubSeq.  Python floats are exact rationals extended with nan and the    *)
(* two infinities; the only rounded operation is the square root.          *)
(***************************************************************************)
EXTENDS Integers, Sequences, FiniteSets, TLC

(***************************************************************************)
(* Strings                                                                 *)
(***************************************************************************)

\* s[i-1] in Python terms: the i-th character (1-based) as a one-character string.
Ch(s, i) == SubSeq(s, i, i)

UpperChars == "ABCDEFGHIJKLMNOPQRSTUVWXYZ"
LowerChars == "abcdefghijklmnopqrstuvwxyz"

\* the lower-case letter of each upper-case letter
LowerOf ==
    [c \in {Ch(UpperChars, i) : i \in 1..26} |->
        Ch(LowerChars, CHOOSE i \in 1..26 : Ch(UpperChars, i) = c)]

LowerCh(c) == IF c \in DOMAIN LowerOf THEN LowerOf[c] ELSE c

\* str.lower()
RECURSIVE Lower(_)
Lower(s) == IF s = "" THEN "" ELSE LowerCh(Ch(s, 1)) \o Lower(Tail(s))

\* the characters str.strip() and the regex class \s remove
Whitespace == {" ", "\t", "\n", "\r", "\f"}

\* str.endswith / str.startswith / the `in` operator on strings
EndsWith(s, t) == Len(s) >= Len(t) /\ SubSeq(s, Len(s) - Len(t) + 1, Len(s)) = t
StartsWith(s, t) == Len(s) >= Len(t) /\ SubSeq(s, 1, Len(t)) = t
Contains(s, t) == \E i \in 1..(Len(s) - Len(t) + 1) : SubSeq(s, i, i + Len(t) - 1) = t

\* s[:-k]
DropLast(s, k) == SubSeq(s, 1, Len(s) - k)
\* s[k:]
DropFirst(s, k) == SubSeq(s, k + 1, Len(s))

\* str.strip(chars)
RECURSIVE LStrip(_, _)
LStrip(s, cs) == IF s # "" /\ Ch(s, 1) \in cs THEN LStrip(Tail(s), cs) ELSE s
RECURSIVE RStrip(_, _)
RStrip(s, cs) == IF s # "" /\ Ch(s, Len(s)) \in cs THEN RStrip(DropLast(s, 1), cs) ELSE s
Strip(s, cs) == RStrip(LStrip(s, cs), cs)

\* os.path.basename (posix): what follows the last "/"
Basename(s) ==
    LET slashes == {i \in 1..Len(s) : Ch(s, i) = "/"}
    IN  IF slashes = {} THEN s
        ELSE DropFirst(s, CHOOSE i \in slashes : \A j \in slashes : j <= i)

\* s.replace("\\", "/")
RECURSIVE ReplaceBackslashes(_)
ReplaceBackslashes(s) ==
    IF s = "" THEN ""
    ELSE (IF Ch(s, 1) = "\\" THEN "/" ELSE Ch(s, 1)) \o ReplaceBackslashes(Tail(s))

\* the characters of file names, in the order of their code points
CodeOrder == " -./0123456789:ABCDEFGHIJKLMNOPQRSTUVWXYZ_abcdefghijklmnopqrstuvwxyz"

\* the rank of c in CodeOrder, which orders as ord(c) does
Ord(c) == CHOOSE i \in 1..Len(CodeOrder) : Ch(CodeOrder, i) = c

\* a < b for str
RECURSIVE StrLess(_, _)
StrLess(a, b) ==
    IF b = "" THEN FALSE
    ELSE IF a = "" THEN TRUE
    ELSE IF Ch(a, 1) = Ch(b, 1) THEN StrLess(Tail(a), Tail(b))
    ELSE Ord(Ch(a, 1)) < Ord(Ch(b, 1))

\* sorted(S) for a set of str
RECURSIVE Sorted(_)
Sorted(S) ==
    IF S = {} THEN <<>>
    ELSE LET least == CHOOSE a \in S : \A b \in S \ {a} : StrLess(a, b)
         IN  <<least>> \o Sorted(S \ {least})

\* s.replace(" ", "_")
RECURSIVE ReplaceSpaces(_)
ReplaceSpaces(s) ==
    IF s = "" THEN ""
    ELSE (IF Ch(s, 1) = " " THEN "_" ELSE Ch(s, 1)) \o ReplaceSpaces(Tail(s))

\* one s.replace("__", "_"): left to right, non-overlapping
RECURSIVE ReplaceDoubleUnderscore(_)
ReplaceDoubleUnderscore(s) ==
    IF Len(s) < 2 THEN s
    ELSE IF SubSeq(s, 1, 2) = "__" THEN "_" \o ReplaceDoubleUnderscore(DropFirst(s, 2))
    ELSE Ch(s, 1) \o ReplaceDoubleUnderscore(Tail(s))

\* while "__" in s: s = s.replace("__", "_")
RECURSIVE CollapseUnderscores(_)
CollapseUnderscores(s) ==
    IF Contains(s, "__") THEN CollapseUnderscores(ReplaceDoubleUnderscore(s)) ELSE s

(***************************************************************************)
(* Identifier canonicalizer                                                *)
(***************************************************************************)

EvTags == <<"ev-00", "ev-25", "ev-50">>
EvSuffixes == <<"_ev-00", "_ev-25", "_ev-50">>

\* _extract_ev_tag: the first of the three tags that occurs in s
extract_ev_tag(s) ==
    LET hits == {i \in 1..Len(EvTags) : Contains(s, EvTags[i])}
    IN  IF s = "" \/ hits = {} THEN ""
        ELSE EvTags[CHOOSE i \in hits : \A j \in hits : i <= j]

\* the first position >= i of low that holds no whitespace (Len+1 if none): \s*
RECURSIVE SkipWs(_, _)
SkipWs(low, i) ==
    IF i <= Len(low) /\ Ch(low, i) \in Whitespace THEN SkipWs(low, i + 1) ELSE i

\* the first position >= i of low that holds none of ':', '_', '-': [:_\-]*
RECURSIVE SkipSeps(_, _)
SkipSeps(low, i) ==
    IF i <= Len(low) /\ Ch(low, i) \in {":", "_", "-"} THEN SkipSeps(low, i + 1) ELSE i

\* r[123]\s*[:_\-]+ matched at position i of low: the number of characters
\* of low up to the end of the match, 0 when it does not match there
MatchRankCore(low, i) ==
    IF i + 1 <= Len(low) /\ Ch(low, i) = "r" /\ Ch(low, i + 1) \in {"1", "2", "3"}
    THEN LET j == SkipWs(low, i + 2)
             k == SkipSeps(low, j)
         IN  IF k > j THEN k - 1 ELSE 0
    ELSE 0

\* the length of the match of ^(?:rank\s*)?r[123]\s*[:_\-]+ (IGNORECASE) at
\* the start of s, 0 when there is none
RankPrefixLen(s) ==
    LET low == Lower(s)
        withRank == IF StartsWith(low, "rank")
                    THEN MatchRankCore(low, SkipWs(low, 5)) ELSE 0
    IN  IF withRank > 0 THEN withRank ELSE MatchRankCore(low, 1)

\* the first suffix of EvSuffixes that low ends with, 0 when none
EvSuffixIndex(low) ==
    LET hits == {i \in 1..Len(EvSuffixes) : EndsWith(low, EvSuffixes[i])}
    IN  IF hits = {} THEN 0 ELSE CHOOSE i \in hits : \A j \in hits : i <= j

\* '_points' stripped before the extensions
normalize_points_before_extensions(raw) ==
    LET s0 == Basename(Strip(raw, Whitespace))
        ev == extract_ev_tag(s0)
        s1 == IF EndsWith(Lower(s0), "_points") THEN DropLast(s0, 7) ELSE s0
        s2 == IF EndsWith(Lower(s1), ".gz") THEN DropLast(s1, 3) ELSE s1
        s3 == IF EndsWith(Lower(s2), ".json") THEN DropLast(s2, 5) ELSE s2
        s4 == IF EvSuffixIndex(Lower(s3)) > 0 THEN DropLast(s3, 6) ELSE s3
        s5 == DropFirst(s4, RankPrefixLen(s4))
        s6 == Strip(CollapseUnderscores(ReplaceSpaces(s5)), {"_"})
    IN  [base_id |-> s6, ev |-> ev]

\* _normalize_id_and_ev, step by step as in the source
normalize_id_and_ev(raw) ==
    LET s0 == Basename(Strip(raw, Whitespace))
        ev == extract_ev_tag(s0)
        s1 == IF EndsWith(Lower(s0), ".gz") THEN DropLast(s0, 3) ELSE s0
        s2 == IF EndsWith(Lower(s1), ".json") THEN DropLast(s1, 5) ELSE s1
        s3 == IF EndsWith(Lower(s2), "_points") THEN DropLast(s2, 7) ELSE s2
        s4 == IF EvSuffixIndex(Lower(s3)) > 0 THEN DropLast(s3, 6) ELSE s3
        s5 == DropFirst(s4, RankPrefixLen(s4))
        s6 == Strip(CollapseUnderscores(ReplaceSpaces(s5)), {"_"})
    IN  [base_id |-> s6, ev |-> ev]

(***************************************************************************)
(* Floats.  A float is [k, n, d]: k = "fin" is the rational n/d (d > 0, in *)
(* lowest terms), k = "nan" is nan, k = "inf" is n * infinity (n = 1 or    *)
(* -1), and k = "err" stands for "float() raised" (Python's None in        *)
(* _as_float).  Arithmetic follows IEEE 754 on the special values and is   *)
(* exact on the rationals; only the square root rounds.                    *)
(***************************************************************************)

RECURSIVE GCD(_, _)
GCD(a, b) == IF b = 0 THEN a ELSE GCD(b, a % b)

Abs(i) == IF i < 0 THEN -i ELSE i
Sign(i) == IF i < 0 THEN -1 ELSE IF i > 0 THEN 1 ELSE 0

\* the rational n/d, d # 0, in lowest terms with a positive denominator
Fin(n, d) ==
    LET g == GCD(Abs(n), Abs(d))
    IN  [k |-> "fin", n |-> Sign(d) * (n \div g), d |-> Abs(d) \div g]
NaN == [k |-> "nan", n |-> 0, d |-> 1]
Inf(s) == [k |-> "inf", n |-> s, d |-> 1]
Err == [k |-> "err", n |-> 0, d |-> 1]

IsFinite(a) == a.k = "fin"

\* a < b, a <= b, a > b: false whenever an operand is nan
FLt(a, b) ==
    CASE a.k = "nan" \/ b.k = "nan" -> FALSE
      [] a.k = "inf" /\ b.k = "inf" -> a.n < b.n
      [] a.k = "inf" -> a.n < 0
      [] b.k = "inf" -> b.n > 0
      [] OTHER -> a.n * b.d < b.n * a.d
FEq(a, b) == a.k # "nan" /\ b.k # "nan" /\ ~FLt(a, b) /\ ~FLt(b, a)
FLe(a, b) == FLt(a, b) \/ FEq(a, b)
FGt(a, b) == FLt(b, a)

FNeg(a) == IF a.k = "nan" THEN NaN ELSE [a EXCEPT !.n = -a.n]

FAdd(a, b) ==
    CASE a.k = "nan" \/ b.k = "nan" -> NaN
      [] a.k = "inf" /\ b.k = "inf" -> IF a.n = b.n THEN a ELSE NaN
      [] a.k = "inf" -> a
      [] b.k = "inf" -> b
      [] OTHER -> LET g == GCD(a.d, b.d)
                  IN  Fin(a.n * (b.d \div g) + b.n * (a.d \div g), (a.d \div g) * b.d)
FSub(a, b) == FAdd(a, FNeg(b))

FMul(a, b) ==
    CASE a.k = "nan" \/ b.k = "nan" -> NaN
      [] a.k = "inf" \/ b.k = "inf" ->
            IF Sign(a.n) * Sign(b.n) = 0 THEN NaN ELSE Inf(Sign(a.n) * Sign(b.n))
      [] OTHER -> Fin(a.n * b.n, a.d * b.d)

\* a / b for b # 0 (the source divides only by values it has tested)
FDiv(a, b) ==
    CASE a.k = "nan" \/ b.k = "nan" -> NaN
      [] a.k = "inf" /\ b.k = "inf" -> NaN
      [] a.k = "inf" -> Inf(a.n * Sign(b.n))
      [] b.k = "inf" -> Fin(0, 1)
      [] OTHER -> Fin(a.n * b.d, a.d * b.n)

\* the largest r in lo..hi with r * r <= v, by bisection
RECURSIVE ISqrtIn(_, _, _)
ISqrtIn(v, lo, hi) ==
    IF lo >= hi THEN lo
    ELSE LET mid == (lo + hi + 1) \div 2
         IN  IF mid * mid <= v THEN ISqrtIn(v, mid, hi) ELSE ISqrtIn(v, lo, mid - 1)
ISqrt(v) == ISqrtIn(v, 0, IF v < 46340 THEN v ELSE 46340)

\* the precision of the rounded square root: results are multiples of 1/SqrtPrec
SqrtPrec == 1000

\* math.sqrt on a value >= 0, rounded down to a multiple of 1/SqrtPrec
FSqrt(a) ==
    CASE a.k = "nan" -> NaN
      [] a.k = "inf" -> a
      [] OTHER -> Fin(ISqrt((a.n * SqrtPrec * SqrtPrec) \div a.d), SqrtPrec)

\* Python's two-argument min and max: the first argument unless the second
\* is smaller (larger), so that a nan second argument is never returned
PyMin(a, b) == IF FLt(b, a) THEN b ELSE a
PyMax(a, b) == IF FGt(b, a) THEN b ELSE a

\* int(f) for a float f: truncation toward zero; raises on nan and inf
IntOfFloat(a) == IF a.n >= 0 THEN a.n \div a.d ELSE -((-a.n) \div a.d)

(***************************************************************************)
(* float(str): surrounding whitespace, an optional sign, then "nan",       *)
(* "inf" or "infinity" in any case, or decimal digits with an optional     *)
(* fraction.  Exponents and digit-group underscores are not modelled: no   *)
(* string of the model uses them.                                          *)
(***************************************************************************)

Digits == "0123456789"
IsDigit(c) == \E i \in 1..10 : Ch(Digits, i) = c
DigitVal(c) == (CHOOSE i \in 1..10 : Ch(Digits, i) = c) - 1
AllDigits(s) == \A i \in 1..Len(s) : IsDigit(Ch(s, i))

RECURSIVE DigitsVal(_)
DigitsVal(s) == IF s = "" THEN 0 ELSE DigitsVal(DropLast(s, 1)) * 10 + DigitVal(Ch(s, Len(s)))

RECURSIVE Pow10(_)
Pow10(k) == IF k = 0 THEN 1 ELSE 10 * Pow10(k - 1)

\* an unsigned decimal: digits, digits "." [digits], or "." digits
ParseUnsigned(s) ==
    LET dots == {i \in 1..Len(s) : Ch(s, i) = "."}
    IN  IF s = "" THEN Err
        ELSE IF dots = {} THEN (IF AllDigits(s) THEN Fin(DigitsVal(s), 1) ELSE Err)
        ELSE IF Cardinality(dots) > 1 THEN Err
        ELSE LET p == CHOOSE i \in dots : TRUE
                 ip == SubSeq(s, 1, p - 1)
                 fp == DropFirst(s, p)
             IN  IF AllDigits(ip) /\ AllDigits(fp) /\ Len(ip) + Len(fp) > 0
                 THEN Fin(DigitsVal(ip) * Pow10(Len(fp)) + DigitsVal(fp), Pow10(Len(fp)))
                 ELSE Err

ParseFloat(str) ==
    LET s == Strip(str, Whitespace)
        neg == s # "" /\ Ch(s, 1) = "-"
        body == IF s # "" /\ Ch(s, 1) \in {"+", "-"} THEN Tail(s) ELSE s
        low == Lower(body)
        mag == IF low = "nan" THEN NaN
               ELSE IF low \in {"inf", "infinity"} THEN Inf(1)
               ELSE ParseUnsigned(body)
    IN  IF mag.k = "err" THEN Err ELSE IF neg THEN FNeg(mag) ELSE mag

(***************************************************************************)
(* Python values held in dicts (samples, CSV rows)                         *)
(***************************************************************************)

VNone == [t |-> "none"]
VStr(s) == [t |-> "str", s |-> s]
VNum(q) == [t |-> "num", q |-> q]
VList(l) == [t |-> "list", l |-> l]
VDict(m) == [t |-> "dict", m |-> m]

\* dict.get(key, default) and `key in dict`
Get(d, key, default) == IF key \in DOMAIN d THEN d[key] ELSE default
Has(d, key) == key \in DOMAIN d

\* float(v): a number is itself, a string is parsed, anything else raises
ToFloat(v) ==
    IF v.t = "num" THEN v.q
    ELSE IF v.t = "str" THEN ParseFloat(v.s)
    ELSE Err

\* int(float(v)): Err when float() raises or the float is nan or infinite
IntViaFloat(v) ==
    LET f == ToFloat(v)
    IN  IF f.k = "fin" THEN Fin(IntOfFloat(f), 1) ELSE Err

\* bool(v)
Truthy(v) ==
    IF v.t = "none" THEN FALSE
    ELSE IF v.t = "str" THEN v.s # ""
    ELSE IF v.t = "num" THEN ~FEq(v.q, Fin(0, 1))
    ELSE IF v.t = "list" THEN Len(v.l) > 0
    ELSE DOMAIN v.m # {}

(***************************************************************************)
(* Confidence scorer                                                       *)
(***************************************************************************)

\* the default of row.get("mae_in_deg_weighted", 1e9)
MaeSentinel == 1000000000

\* the float a row field parses to, `default` when float() raises
FloatField(row, key, default) ==
    LET f == ToFloat(Get(row, key, VNum(default)))
    IN  IF f.k = "err" THEN default ELSE f

\* the threshold mode with `<` for `<=`
mae_conf_strict_threshold(mae, E_good, E_bad) ==
    IF FLe(E_bad, E_good)
    THEN (IF FLt(mae, E_good) THEN Fin(1, 1) ELSE Fin(0, 1))
    ELSE LET t == FDiv(FSub(mae, E_good), FSub(E_bad, E_good))
         IN  IF FLt(t, Fin(0, 1)) THEN Fin(1, 1)
             ELSE IF FGt(t, Fin(1, 1)) THEN Fin(0, 1)
             ELSE FSub(Fin(1, 1), t)

\* lines 98-107: the confidence in the error alone
mae_conf_of(mae, E_good, E_bad) ==
    IF FLe(E_bad, E_good)
    THEN (IF FLe(mae, E_good) THEN Fin(1, 1) ELSE Fin(0, 1))
    ELSE LET t == FDiv(FSub(mae, E_good), FSub(E_bad, E_good))
         IN  IF FLt(t, Fin(0, 1)) THEN Fin(1, 1)
             ELSE IF FGt(t, Fin(1, 1)) THEN Fin(0, 1)
             ELSE FSub(Fin(1, 1), t)

\* the product returned without the clamp of line 110
unclamped_conf(frac, mae_conf) == FMul(frac, mae_conf)

\* lines 109-110: conf = frac * mae_conf; return max(0.0, min(1.0, conf))
clamped_conf(frac, mae_conf) ==
    PyMax(Fin(0, 1), PyMin(Fin(1, 1), FMul(frac, mae_conf)))

confidence_from_row(row, E_good, E_bad) ==
    LET frac == FloatField(row, "inlier_weight_frac", Fin(0, 1))
        mae == FloatField(row, "mae_in_deg_weighted", Fin(MaeSentinel, 1))
    IN  clamped_conf(frac, mae_conf_of(mae, E_good, E_bad))

(***************************************************************************)
(* Direction extraction and normalization                                  *)
(***************************************************************************)

DIR_KEY_CANDIDATES ==
    << <<"dir_x", "dir_y", "dir_z">>,
       <<"dir_vx", "dir_vy", "dir_vz">>,
       <<"dirvx", "dirvy", "dirvz">>,
       <<"light_dir_x", "light_dir_y", "light_dir_z">>,
       <<"direction_x", "direction_y", "direction_z">>,
       <<"vx", "vy", "vz">>,
       <<"Lx", "Ly", "Lz">>,
       <<"L_x", "L_y", "L_z">> >>

SINGLE_VEC_CANDIDATES ==
    <<"dir", "dir_v", "light_dir", "direction", "dir_vec", "dirv", "L", "light_direction">>

\* the roots and the component names of the third loop (lines 193, 196)
NESTED_ROOTS == <<"dir", "direction", "light_dir", "L">>
NESTED_CANDS == << <<"x", "y", "z">>, <<"vx", "vy", "vz">>, <<"dir_x", "dir_y", "dir_z">> >>

\* _as_float: the float, Err standing for None
as_float(v) == ToFloat(v)

\* the return value on line 204
NoDirection == [x |-> Err, y |-> Err, z |-> Err, src |-> "no_direction_keys_found"]

\* `x is not None and y is not None and z is not None`, then the return
DirResult(x, y, z, src) ==
    IF x.k # "err" /\ y.k # "err" /\ z.k # "err"
    THEN [x |-> x, y |-> y, z |-> z, src |-> src]
    ELSE NoDirection

Found(r) == r.x.k # "err"

\* one pass of the first loop's body (lines 176-181)
FlatAttempt(d, i) ==
    LET c == DIR_KEY_CANDIDATES[i]
    IN  IF Has(d, c[1]) /\ Has(d, c[2]) /\ Has(d, c[3])
        THEN DirResult(as_float(d[c[1]]), as_float(d[c[2]]), as_float(d[c[3]]),
                       c[1] \o "," \o c[2] \o "," \o c[3])
        ELSE NoDirection

\* one pass of the second loop's body (lines 184-191)
SingleAttempt(d, i) ==
    LET vk == SINGLE_VEC_CANDIDATES[i]
    IN  IF Has(d, vk) /\ d[vk].t = "list" /\ Len(d[vk].l) >= 3
        THEN DirResult(as_float(d[vk].l[1]), as_float(d[vk].l[2]), as_float(d[vk].l[3]), vk)
        ELSE NoDirection

\* one pass of the innermost body of the third loop (lines 194-202)
NestedAttempt(d, i, j) ==
    LET root == NESTED_ROOTS[i]
        cand == NESTED_CANDS[j]
        obj == Get(d, root, VNone)
    IN  IF obj.t = "dict" /\ \A k \in 1..3 : Has(obj.m, cand[k])
        THEN DirResult(as_float(obj.m[cand[1]]), as_float(obj.m[cand[2]]),
                       as_float(obj.m[cand[3]]),
                       root \o "." \o cand[1] \o "," \o root \o "." \o cand[2]
                            \o "," \o root \o "." \o cand[3])
        ELSE NoDirection

\* the first loop given up at the first triple whose keys are all present
RECURSIVE FlatFromAbort(_, _)
FlatFromAbort(d, i) ==
    IF i > Len(DIR_KEY_CANDIDATES) THEN NoDirection
    ELSE LET c == DIR_KEY_CANDIDATES[i]
         IN  IF Has(d, c[1]) /\ Has(d, c[2]) /\ Has(d, c[3]) THEN FlatAttempt(d, i)
             ELSE FlatFromAbort(d, i + 1)

\* the three loops, each from candidate i on: the first pass that returns
RECURSIVE FlatFrom(_, _)
FlatFrom(d, i) ==
    IF i > Len(DIR_KEY_CANDIDATES) THEN NoDirection
    ELSE IF Found(FlatAttempt(d, i)) THEN FlatAttempt(d, i) ELSE FlatFrom(d, i + 1)

RECURSIVE SingleFrom(_, _)
SingleFrom(d, i) ==
    IF i > Len(SINGLE_VEC_CANDIDATES) THEN NoDirection
    ELSE IF Found(SingleAttempt(d, i)) THEN SingleAttempt(d, i) ELSE SingleFrom(d, i + 1)

RECURSIVE NestedFrom(_, _, _)
NestedFrom(d, i, j) ==
    IF i > Len(NESTED_ROOTS) THEN NoDirection
    ELSE IF j > Len(NESTED_CANDS) THEN NestedFrom(d, i + 1, 1)
    ELSE IF Found(NestedAttempt(d, i, j)) THEN NestedAttempt(d, i, j)
    ELSE NestedFrom(d, i, j + 1)

\* the second loop run before the first
extract_single_vectors_first(d) ==
    IF Found(SingleFrom(d, 1)) THEN SingleFrom(d, 1)
    ELSE IF Found(FlatFrom(d, 1)) THEN FlatFrom(d, 1)
    ELSE NestedFrom(d, 1, 1)

extract_direction_components(d) ==
    IF Found(FlatFrom(d, 1)) THEN FlatFrom(d, 1)
    ELSE IF Found(SingleFrom(d, 1)) THEN SingleFrom(d, 1)
    ELSE NestedFrom(d, 1, 1)

\* math.sqrt(x * x + y * y + z * z)
VecNorm(x, y, z) == FSqrt(FAdd(FAdd(FMul(x, x), FMul(y, y)), FMul(z, z)))

\* eps = 1e-12 = 1 / (EpsRootInv * EpsRootInv)
EpsRootInv == 1000000

\* n < eps for a finite n = a/b: a * 10^12 < b, computed within 32 bits
BelowEps(n) ==
    \/ n.n <= 0
    \/ /\ n.n < 2147
       /\ n.n * EpsRootInv < (n.d + EpsRootInv - 1) \div EpsRootInv

\* z returned undivided
normalize_vec_z_unscaled(x, y, z) ==
    LET n == VecNorm(x, y, z)
    IN  IF ~IsFinite(n) \/ BelowEps(n)
        THEN [ok |-> FALSE, x |-> Err, y |-> Err, z |-> Err, n |-> n]
        ELSE [ok |-> TRUE, x |-> FDiv(x, n), y |-> FDiv(y, n), z |-> z, n |-> n]

\* normalize_vec: ok is FALSE for the (None, None, None, n) return
normalize_vec(x, y, z) ==
    LET n == VecNorm(x, y, z)
    IN  IF ~IsFinite(n) \/ BelowEps(n)
        THEN [ok |-> FALSE, x |-> Err, y |-> Err, z |-> Err, n |-> n]
        ELSE [ok |-> TRUE, x |-> FDiv(x, n), y |-> FDiv(y, n), z |-> FDiv(z, n), n |-> n]

(***************************************************************************)
(* Confidence join (main, lines 1088-1115) for one sample                  *)
(***************************************************************************)

\* str(cand) for the identifier candidates, which are strings in this model
PyStr(v) == v.s

\* rk = int(float(d.get("rank", 1))), 1 when that raises
sample_rank(d) ==
    LET r == IntViaFloat(Get(d, "rank", VNum(Fin(1, 1))))
    IN  IF r.k = "err" THEN 1 ELSE r.n

\* the keys of the candidates list, in its order (lines 1095-1101)
CandidateKeys == <<"painting_info", "painting_rank_id", "pose_info", "img_path", "file">>

candidates(d) == [i \in 1..Len(CandidateKeys) |-> Get(d, CandidateKeys[i], VStr(""))]

\* the loop of lines 1104-1113 from candidate i on: the confidence attached
RECURSIVE JoinFrom(_, _, _, _)
JoinFrom(cands, rk, cm, i) ==
    IF i > Len(cands) THEN VNone
    ELSE IF ~Truthy(cands[i]) THEN JoinFrom(cands, rk, cm, i + 1)
    ELSE LET base_id == normalize_id_and_ev(PyStr(cands[i])).base_id
         IN  IF base_id = "" THEN JoinFrom(cands, rk, cm, i + 1)
             ELSE IF <<base_id, rk>> \in DOMAIN cm THEN VNum(cm[<<base_id, rk>>])
             ELSE JoinFrom(cands, rk, cm, i + 1)

\* the loop without its `break`: every candidate is consulted, the last hit stays
RECURSIVE JoinFromNoBreak(_, _, _, _, _)
JoinFromNoBreak(cands, rk, cm, i, conf) ==
    IF i > Len(cands) THEN conf
    ELSE IF ~Truthy(cands[i]) THEN JoinFromNoBreak(cands, rk, cm, i + 1, conf)
    ELSE LET base_id == normalize_id_and_ev(PyStr(cands[i])).base_id
         IN  IF base_id # "" /\ <<base_id, rk>> \in DOMAIN cm
             THEN JoinFromNoBreak(cands, rk, cm, i + 1, VNum(cm[<<base_id, rk>>]))
             ELSE JoinFromNoBreak(cands, rk, cm, i + 1, conf)

joined_confidence_no_break(d, cm) ==
    JoinFromNoBreak(candidates(d), sample_rank(d), cm, 1, VNone)

joined_confidence(d, cm) == JoinFrom(candidates(d), sample_rank(d), cm, 1)

(***************************************************************************)
(* State of one run of main()                                              *)
(***************************************************************************)

VARIABLES
    pc,            \* where main() is
    args,          \* the command line: file_name, no_normalize, conf_mae_good, conf_mae_bad
    pickle,        \* the pickle file: "missing", "not_list" or "ok"
    csv,           \* --csv-path: "none" (not given), "missing", "unreadable" or "ok"
    csv_rows,      \* the rows csv.DictReader yields
    all_data,      \* the loaded samples, updated in place
    input_data,    \* the samples as loaded (history)
    desired_ev,
    conf_map,      \* (base_id, rank) -> confidence
    conf_src,      \* (base_id, rank) -> index of the row that wrote the entry (history)
    row_i, kept, skipped_ev, skipped_rank,
    join_i, hit, miss,
    xyz_i,
    used,          \* the output collection
    used_idx,      \* the input index of each output sample (history)
    skipped,
    out_dir_made, staged, index_written,
    img_src,       \* --img-src: "none" (not given), "missing" or "ok"
    img_files,     \* the <<directory, file name>> pairs os.walk yields, in its order
    idx,           \* build_basename_index: file name -> full path
    walk_i,
    needed,        \* sorted(needed) of stage_painting_images
    look_i, copied, missing,
    staged_files,  \* the paths copied below the output directory
    probe          \* input and result of a function applied on its own

vars == <<pc, args, pickle, csv, csv_rows, all_data, input_data, desired_ev, conf_map,
          conf_src, row_i, kept, skipped_ev, skipped_rank, join_i, hit, miss, xyz_i,
          used, used_idx, skipped, out_dir_made, staged, index_written, img_src,
          img_files, idx, walk_i, needed, look_i, copied, missing, staged_files, probe>>

loader_vars == <<conf_map, conf_src, row_i, kept, skipped_ev, skipped_rank>>
join_vars == <<join_i, hit, miss>>
xyz_vars == <<xyz_i, used, used_idx, skipped>>
input_vars == <<args, pickle, csv, csv_rows, input_data, img_src, img_files, probe>>
stage_vars == <<idx, walk_i, needed, look_i, copied, missing, staged_files>>
output_vars == <<staged, index_written, stage_vars>>

EmptyMap == <<>>

\* the state main() starts from, the inputs aside
MainStart ==
    /\ pc = "start"
    /\ input_data = all_data
    /\ desired_ev = ""
    /\ conf_map = EmptyMap /\ conf_src = EmptyMap
    /\ row_i = 1 /\ kept = 0 /\ skipped_ev = 0 /\ skipped_rank = 0
    /\ join_i = 1 /\ hit = 0 /\ miss = 0
    /\ xyz_i = 1 /\ used = <<>> /\ used_idx = <<>> /\ skipped = 0
    /\ out_dir_made = FALSE /\ staged = FALSE /\ index_written = FALSE
    /\ idx = EmptyMap /\ walk_i = 1
    /\ needed = <<>> /\ look_i = 1 /\ copied = 0 /\ missing = 0 /\ staged_files = {}

(***************************************************************************)
(* main(), lines 1060-1076                                                 *)
(***************************************************************************)

\* lines 1061-1063: the pickle does not exist
PickleNotFound ==
    /\ pc = "start" /\ pickle = "missing"
    /\ pc' = "no_pickle"
    /\ UNCHANGED <<all_data, desired_ev, out_dir_made>>
    /\ UNCHANGED <<loader_vars, join_vars, xyz_vars, input_vars, output_vars>>

\* lines 1065-1074: the out dir is made, the pickle is not a list of dicts
PickleNotListOfDict ==
    /\ pc = "start" /\ pickle = "not_list"
    /\ out_dir_made' = TRUE
    /\ pc' = "bad_pickle"
    /\ UNCHANGED <<all_data, desired_ev>>
    /\ UNCHANGED <<loader_vars, join_vars, xyz_vars, input_vars, output_vars>>

\* lines 1065-1076: the samples are loaded
LoadPickle ==
    /\ pc = "start" /\ pickle = "ok"
    /\ out_dir_made' = TRUE
    /\ desired_ev' = extract_ev_tag(args.file_name)
    /\ pc' = "csv"
    /\ UNCHANGED all_data
    /\ UNCHANGED <<loader_vars, join_vars, xyz_vars, input_vars, output_vars>>

(***************************************************************************)
(* load_confidence_map_by_id_and_rank, called on line 1080                 *)
(***************************************************************************)

\* line 1121: no --csv-path, the join is not run
CsvDisabled ==
    /\ pc = "csv" /\ csv = "none"
    /\ pc' = "xyz"
    /\ UNCHANGED <<all_data, desired_ev, out_dir_made>>
    /\ UNCHANGED <<loader_vars, join_vars, xyz_vars, input_vars, output_vars>>

\* lines 117-119: the path does not exist, the table is empty
CsvNotFound ==
    /\ pc = "csv" /\ csv = "missing"
    /\ pc' = "join"
    /\ UNCHANGED <<all_data, desired_ev, out_dir_made>>
    /\ UNCHANGED <<loader_vars, join_vars, xyz_vars, input_vars, output_vars>>

\* line 125: the path exists and open() or the reader raises; nothing catches it
CsvUnreadable ==
    /\ pc = "csv" /\ csv = "unreadable"
    /\ pc' = "crashed"
    /\ UNCHANGED <<all_data, desired_ev, out_dir_made>>
    /\ UNCHANGED <<loader_vars, join_vars, xyz_vars, input_vars, output_vars>>

\* line 125: the file is opened
CsvOpen ==
    /\ pc = "csv" /\ csv = "ok"
    /\ pc' = "rows"
    /\ UNCHANGED <<all_data, desired_ev, out_dir_made>>
    /\ UNCHANGED <<loader_vars, join_vars, xyz_vars, input_vars, output_vars>>

\* an unparsable rank taken as rank 0
row_rank_default_zero(row) ==
    LET rk == IntViaFloat(Get(row, "rank", VStr("0")))
    IN  IF rk.k = "err" THEN Fin(0, 1) ELSE rk

\* rk = int(float(row.get("rank", "0"))) on line 129, Err when it raises
row_rank(row) == IntViaFloat(Get(row, "rank", VStr("0")))

\* _normalize_id_and_ev(row.get("file", "")) on line 134
row_id(row) == normalize_id_and_ev(PyStr(Get(row, "file", VStr(""))))

\* the exposure test of line 136 left out
row_never_skipped_by_ev(row, want) == FALSE

\* line 136: the row is of another exposure than the one asked for
row_skipped_by_ev(row, want) == want # "" /\ row_id(row).ev # want

\* an entry already in the table kept
table_put_if_absent(cm, key, value) == cm @@ (key :> value)

\* conf_map[(base_id, rk)] = value on line 139
table_put(cm, key, value) == (key :> value) @@ cm

\* lines 127-141: one row of the report
LoadRow ==
    /\ pc = "rows" /\ row_i <= Len(csv_rows)
    /\ LET row == csv_rows[row_i]
           rk == row_rank(row)
           key == <<row_id(row).base_id, rk.n>>
       IN  IF rk.k = "err"
           THEN /\ skipped_rank' = skipped_rank + 1
                /\ UNCHANGED <<conf_map, conf_src, kept, skipped_ev>>
           ELSE IF row_skipped_by_ev(row, desired_ev)
           THEN /\ skipped_ev' = skipped_ev + 1
                /\ UNCHANGED <<conf_map, conf_src, kept, skipped_rank>>
           ELSE /\ conf_map' = table_put(conf_map, key,
                                         confidence_from_row(row, args.conf_mae_good,
                                                             args.conf_mae_bad))
                /\ conf_src' = (key :> row_i) @@ conf_src
                /\ kept' = kept + 1
                /\ UNCHANGED <<skipped_ev, skipped_rank>>
    /\ row_i' = row_i + 1
    /\ UNCHANGED <<pc, all_data, desired_ev, out_dir_made>>
    /\ UNCHANGED <<join_vars, xyz_vars, input_vars, output_vars>>

\* the table returned with rows still to read
CsvLoadedEarly ==
    /\ pc = "rows"
    /\ pc' = "join"
    /\ UNCHANGED <<all_data, desired_ev, out_dir_made>>
    /\ UNCHANGED <<loader_vars, join_vars, xyz_vars, input_vars, output_vars>>

\* lines 143-147: the reader is exhausted, the table is returned
CsvLoaded ==
    /\ pc = "rows" /\ row_i > Len(csv_rows)
    /\ pc' = "join"
    /\ UNCHANGED <<all_data, desired_ev, out_dir_made>>
    /\ UNCHANGED <<loader_vars, join_vars, xyz_vars, input_vars, output_vars>>

(***************************************************************************)
(* main(), lines 1086-1120: the join                                       *)
(***************************************************************************)

\* d["key"] = value
SetField(d, key, value) == (key :> value) @@ d

\* lines 1088-1119: one sample
JoinSample ==
    /\ pc = "join" /\ join_i <= Len(all_data)
    /\ LET conf == joined_confidence(all_data[join_i], conf_map)
       IN  /\ all_data' = [all_data EXCEPT ![join_i] = SetField(@, "confidence", conf)]
           /\ IF conf = VNone
              THEN miss' = miss + 1 /\ UNCHANGED hit
              ELSE hit' = hit + 1 /\ UNCHANGED miss
    /\ join_i' = join_i + 1
    /\ UNCHANGED <<pc, desired_ev, out_dir_made>>
    /\ UNCHANGED <<loader_vars, xyz_vars, input_vars, output_vars>>

\* line 1120: all samples are joined
JoinDone ==
    /\ pc = "join" /\ join_i > Len(all_data)
    /\ pc' = "xyz"
    /\ UNCHANGED <<all_data, desired_ev, out_dir_made>>
    /\ UNCHANGED <<loader_vars, join_vars, xyz_vars, input_vars, output_vars>>

(***************************************************************************)
(* main(), lines 1124-1156: physical xyz                                   *)
(***************************************************************************)

\* the pass-through branch taken whatever --no-normalize says
direction_always_raw(r, no_normalize) ==
    [ok |-> TRUE, x |-> r.x, y |-> r.y, z |-> r.z, n |-> VecNorm(r.x, r.y, r.z)]

\* lines 1135-1142: the components stored and the raw norm; ok is FALSE for
\* the `continue` on line 1142
direction_to_store(r, no_normalize) ==
    IF no_normalize
    THEN [ok |-> TRUE, x |-> r.x, y |-> r.y, z |-> r.z, n |-> VecNorm(r.x, r.y, r.z)]
    ELSE normalize_vec(r.x, r.y, r.z)

\* the five fields put in a record of their own
with_direction_fresh_record(d, u, src) ==
    ("x" :> VNum(u.x)) @@ ("y" :> VNum(u.y)) @@ ("z" :> VNum(u.z))
        @@ ("dir_norm_raw" :> (IF IsFinite(u.n) THEN VNum(u.n) ELSE VNone))
        @@ ("dir_src_keys" :> VStr(src))

\* lines 1144-1148: the five fields written
with_direction(d, u, src) ==
    SetField(SetField(SetField(SetField(SetField(d,
        "x", VNum(u.x)),
        "y", VNum(u.y)),
        "z", VNum(u.z)),
        "dir_norm_raw", IF IsFinite(u.n) THEN VNum(u.n) ELSE VNone),
        "dir_src_keys", VStr(src))

\* lines 1129-1151: one sample
XyzSample ==
    /\ pc = "xyz" /\ xyz_i <= Len(all_data)
    /\ LET d == all_data[xyz_i]
           r == extract_direction_components(d)
           u == direction_to_store(r, args.no_normalize)
       IN  IF ~Found(r) \/ ~u.ok
           THEN /\ skipped' = skipped + 1
                /\ UNCHANGED <<all_data, used, used_idx>>
           ELSE /\ all_data' = [all_data EXCEPT ![xyz_i] = with_direction(d, u, r.src)]
                /\ used' = Append(used, with_direction(d, u, r.src))
                /\ used_idx' = Append(used_idx, xyz_i)
                /\ UNCHANGED skipped
    /\ xyz_i' = xyz_i + 1
    /\ UNCHANGED <<pc, desired_ev, out_dir_made>>
    /\ UNCHANGED <<loader_vars, join_vars, input_vars, output_vars>>

\* lines 1154-1156: no sample has a direction
NoPointsError ==
    /\ pc = "xyz" /\ xyz_i > Len(all_data) /\ Len(used) = 0
    /\ pc' = "error"
    /\ UNCHANGED <<all_data, desired_ev, out_dir_made>>
    /\ UNCHANGED <<loader_vars, join_vars, xyz_vars, input_vars, output_vars>>

\* lines 1158-1160: some sample has one
XyzDone ==
    /\ pc = "xyz" /\ xyz_i > Len(all_data) /\ Len(used) # 0
    /\ pc' = "stage"
    /\ UNCHANGED <<all_data, desired_ev, out_dir_made>>
    /\ UNCHANGED <<loader_vars, join_vars, xyz_vars, input_vars, output_vars>>

(***************************************************************************)
(* main(), lines 1162-1186: assets and the page                            *)
(***************************************************************************)

\* lines 230-232: --img-src is not given, nothing is copied
StageNoImgSrc ==
    /\ pc = "stage" /\ img_src = "none"
    /\ staged' = TRUE
    /\ pc' = "write"
    /\ UNCHANGED <<all_data, desired_ev, out_dir_made, index_written, stage_vars>>
    /\ UNCHANGED <<loader_vars, join_vars, xyz_vars, input_vars>>

\* lines 233-236: the directory of --img-src does not exist
StageImgSrcNotFound ==
    /\ pc = "stage" /\ img_src = "missing"
    /\ staged' = TRUE
    /\ pc' = "write"
    /\ UNCHANGED <<all_data, desired_ev, out_dir_made, index_written, stage_vars>>
    /\ UNCHANGED <<loader_vars, join_vars, xyz_vars, input_vars>>

\* lines 238-241, 220: the destination is made and the walk starts on an empty index
StageBegin ==
    /\ pc = "stage" /\ img_src = "ok"
    /\ idx' = EmptyMap /\ walk_i' = 1
    /\ pc' = "walk"
    /\ UNCHANGED <<all_data, desired_ev, out_dir_made, staged, index_written>>
    /\ UNCHANGED <<needed, look_i, copied, missing, staged_files>>
    /\ UNCHANGED <<loader_vars, join_vars, xyz_vars, input_vars>>

\* os.path.join(r, fn)
path_join(r, fn) == r \o "/" \o fn

\* every file overwrites the entry of its name
index_put_overwrite(ix, r, fn) == (fn :> path_join(r, fn)) @@ ix

\* lines 223-224: if fn not in idx: idx[fn] = os.path.join(r, fn)
index_put(ix, r, fn) ==
    IF fn \in DOMAIN ix THEN ix ELSE (fn :> path_join(r, fn)) @@ ix

\* lines 221-224: one file of the walk
IndexFile ==
    /\ pc = "walk" /\ walk_i <= Len(img_files)
    /\ idx' = index_put(idx, img_files[walk_i][1], img_files[walk_i][2])
    /\ walk_i' = walk_i + 1
    /\ UNCHANGED <<pc, all_data, desired_ev, out_dir_made, staged, index_written>>
    /\ UNCHANGED <<needed, look_i, copied, missing, staged_files>>
    /\ UNCHANGED <<loader_vars, join_vars, xyz_vars, input_vars>>

\* str(d.get("img_path", "") or "")
img_path_of(d) ==
    LET v == Get(d, "img_path", VStr(""))
    IN  IF Truthy(v) THEN PyStr(v) ELSE ""

\* lines 243-250: the file names the samples need
needed_names(points) ==
    {Basename(ReplaceBackslashes(img_path_of(points[i]))) : i \in 1..Len(points)} \ {""}

\* lines 225, 243-250: the index is returned and the needed names collected
WalkDone ==
    /\ pc = "walk" /\ walk_i > Len(img_files)
    /\ needed' = Sorted(needed_names(used))
    /\ look_i' = 1
    /\ pc' = "copy"
    /\ UNCHANGED <<all_data, desired_ev, out_dir_made, staged, index_written>>
    /\ UNCHANGED <<idx, walk_i, copied, missing, staged_files>>
    /\ UNCHANGED <<loader_vars, join_vars, xyz_vars, input_vars>>

\* lines 254-262: one needed name is looked up and its file copied; the
\* files of the walk are still there when they are copied
StageImage ==
    /\ pc = "copy" /\ look_i <= Len(needed)
    /\ LET base == needed[look_i]
       IN  IF base \in DOMAIN idx
           THEN /\ staged_files' = staged_files \cup {base}
                /\ copied' = copied + 1
                /\ UNCHANGED missing
           ELSE /\ missing' = missing + 1
                /\ UNCHANGED <<copied, staged_files>>
    /\ look_i' = look_i + 1
    /\ UNCHANGED <<pc, all_data, desired_ev, out_dir_made, staged, index_written>>
    /\ UNCHANGED <<idx, walk_i, needed>>
    /\ UNCHANGED <<loader_vars, join_vars, xyz_vars, input_vars>>

\* lines 264, 1164-1167: the images are staged; no plots or balls are
StageDone ==
    /\ pc = "copy" /\ look_i > Len(needed)
    /\ staged' = TRUE
    /\ pc' = "write"
    /\ UNCHANGED <<all_data, desired_ev, out_dir_made, index_written, stage_vars>>
    /\ UNCHANGED <<loader_vars, join_vars, xyz_vars, input_vars>>

\* lines 1170-1179
WriteIndexHtml ==
    /\ pc = "write"
    /\ index_written' = TRUE
    /\ pc' = "done"
    /\ UNCHANGED <<all_data, desired_ev, out_dir_made, staged, stage_vars>>
    /\ UNCHANGED <<loader_vars, join_vars, xyz_vars, input_vars>>

Next ==
    \/ PickleNotFound \/ PickleNotListOfDict \/ LoadPickle
    \/ CsvDisabled \/ CsvNotFound \/ CsvUnreadable \/ CsvOpen
    \/ LoadRow \/ CsvLoaded
    \/ JoinSample \/ JoinDone
    \/ XyzSample \/ NoPointsError \/ XyzDone
    \/ StageNoImgSrc \/ StageImgSrcNotFound \/ StageBegin
    \/ IndexFile \/ WalkDone \/ StageImage \/ StageDone
    \/ WriteIndexHtml

(***************************************************************************)
(* Inputs                                                                  *)
(***************************************************************************)

\* most samples and most quality rows of a run
MaxSamples == 2
MaxRows == 2
MaxDirSamples == 3

\* the sequences of at most n distinct elements of S
SeqsUpTo(S, n) ==
    UNION {{s \in [1..k -> S] : \A i, j \in 1..k : i # j => s[i] # s[j]} : k \in 0..n}

Num(n) == VNum(Fin(n, 1))
Tenths(n) == VNum(Fin(n, 10))

FlatDir(x, y, z) == ("dir_x" :> x) @@ ("dir_y" :> y) @@ ("dir_z" :> z)

\* samples that differ in their identifier fields and rank
SampleSet ==
    { \* the sample of the join and priority examples
      ("painting_info" :> VStr("Artist_Name")) @@ ("rank" :> Num(2))
          @@ FlatDir(Tenths(6), Num(0), Tenths(8))
          @@ ("dir" :> VList(<<Num(1), Num(0), Num(0)>>)),
      \* the rank as a string, the direction as a single vector
      ("painting_info" :> VStr("Artist_Name")) @@ ("rank" :> VStr("2.0"))
          @@ ("L" :> VList(<<Num(0), Num(3), Num(4)>>)),
      \* rank 1, no direction
      ("painting_info" :> VStr("Artist_Name")) @@ ("rank" :> Num(1))
          @@ ("title" :> VStr("untitled")),
      \* no rank, a rank prefix and an extension on the identifier
      ("file" :> VStr("rank r1: Artist_Name.json"))
          @@ ("direction" :> VList(<<Num(0), Num(0), Num(1)>>)),
      \* an empty first candidate, a decorated second one, an unparsable rank
      ("painting_info" :> VStr("")) @@ ("rank" :> VStr("x"))
          @@ ("painting_rank_id" :> VStr("R2_Artist_Name_ev-25_points.json"))
          @@ FlatDir(Num(1), Num(2), Num(2)),
      \* a first candidate that misses, a None, two later ones that can hit;
      \* the record already carries a confidence
      ("painting_info" :> VStr("Unknown")) @@ ("pose_info" :> VNone)
          @@ ("img_path" :> VStr("imgs/Other.json")) @@ ("file" :> VStr("Artist_Name"))
          @@ ("rank" :> Num(2)) @@ ("confidence" :> Num(5))
          @@ FlatDir(Tenths(6), Num(0), Tenths(8)),
      \* a candidate that canonicalizes to "", a fractional rank, a zero direction
      ("painting_info" :> VStr("___")) @@ ("file" :> VStr("Other"))
          @@ ("rank" :> VNum(Fin(5, 2)))
          @@ FlatDir(Num(0), Num(0), Num(0)) }

QualityRow(file, rank, frac, mae) ==
    ("file" :> VStr(file)) @@ ("rank" :> VStr(rank))
        @@ ("inlier_weight_frac" :> VStr(frac)) @@ ("mae_in_deg_weighted" :> VStr(mae))

RowSet ==
    { QualityRow("Artist_Name_ev-25_points.json", "2", "1", "1"),
      QualityRow("R2_Artist_Name_ev-50_points.json.gz", "2.0", "0.5", "4.5"),
      QualityRow("plots/Other.json", "2", "1.5", "0"),
      QualityRow("Artist_Name_ev-50", "abc", "1", "1"),
      \* no mae column value: the sentinel applies and the score is 0
      ("file" :> VStr("Artist_Name_ev-25.json")) @@ ("rank" :> VStr("1"))
          @@ ("inlier_weight_frac" :> VStr("0.5")) }

\* the reports of the runs over SampleSet
JoinReports ==
    { <<QualityRow("R2_Artist_Name_ev-50_points.json.gz", "2.0", "0.5", "4.5"),
        QualityRow("plots/Other.json", "2", "1.5", "0")>>,
      <<QualityRow("Artist_Name_ev-25.json", "1", "0.5", "9"),
        QualityRow("Artist_Name_ev-50", "abc", "1", "1"),
        QualityRow("Artist_Name_ev-25_points.json", "2", "1", "1")>> }

\* the samples of the runs over reports of RowSet
LoadSamples ==
    { <<>>,
      <<("painting_info" :> VStr("Artist_Name")) @@ ("rank" :> Num(2))
          @@ FlatDir(Tenths(6), Num(0), Tenths(8))>> }

\* samples that differ in how they hold their direction
DirSampleSet ==
    { ("painting_info" :> VStr("Artist_Name")) @@ ("rank" :> Num(2))
          @@ FlatDir(Tenths(6), Num(0), Tenths(8))
          @@ ("dir" :> VList(<<Num(1), Num(0), Num(0)>>)),
      \* no direction keys
      ("painting_info" :> VStr("Artist_Name")) @@ ("confidence" :> VStr("high")),
      \* a flat triple with a non-numeric component, then a single vector
      FlatDir(Num(1), VStr("abc"), Num(0)) @@ ("L" :> VList(<<Num(0), Num(3), Num(4)>>)),
      \* the zero vector
      FlatDir(Num(0), Num(0), Num(0)) @@ ("confidence" :> Num(5)),
      \* a nested object
      ("direction" :> VDict(("vx" :> VStr("1")) @@ ("vy" :> Num(2)) @@ ("vz" :> Num(2)))),
      \* a later flat triple, one component a numeric string
      ("Lx" :> Num(1)) @@ ("Ly" :> Num(2)) @@ ("Lz" :> VStr("2")),
      \* a component that parses to nan
      ("vx" :> VStr("nan")) @@ ("vy" :> Num(1)) @@ ("vz" :> Num(0)),
      \* a vector too short, then a nested object of irrational norm
      ("dir" :> VList(<<Num(1), Num(0)>>))
          @@ ("light_dir" :> VDict(("x" :> Num(1)) @@ ("y" :> Num(1)) @@ ("z" :> Num(0)))) }

DefaultArgs(file_name, no_normalize) ==
    [file_name |-> file_name, no_normalize |-> no_normalize,
     conf_mae_good |-> Fin(1, 1), conf_mae_bad |-> Fin(8, 1)]

NoProbe == [fn |-> "none"]

\* a run that ends at the pickle checks
InitNoSamples ==
    /\ pickle \in {"missing", "not_list"}
    /\ args = DefaultArgs("points.pkl", FALSE)
    /\ csv = "none" /\ csv_rows = <<>> /\ all_data = <<>>
    /\ img_src = "none" /\ img_files = <<>>

\* runs over samples of SampleSet and the reports of JoinReports
InitJoinInputs ==
    /\ pickle = "ok"
    /\ args \in {DefaultArgs(f, FALSE) : f \in {"points_ev-25.pkl", "points.pkl"}}
    /\ csv \in {"none", "missing", "unreadable", "ok"}
    /\ csv_rows \in (IF csv = "ok" THEN JoinReports ELSE {<<>>})
    /\ all_data \in SeqsUpTo(SampleSet, MaxSamples)
    /\ img_src = "none" /\ img_files = <<>>

\* most files under --img-src
MaxFiles == 2

\* files under --img-src, as <<directory, file name>>
FileSet ==
    { <<"assets", "x.png">>, <<"assets/a", "Other.json">>, <<"assets/b", "Other.json">> }

\* os.walk is top-down: the files of the root come before those below it
WalkOrders ==
    {w \in SeqsUpTo(FileSet, MaxFiles) : \A i \in 1..Len(w) : w[i][1] = "assets" => i = 1}

\* samples with a direction that differ in their img_path
AssetSamples ==
    { <<("img_path" :> VStr("imgs/Other.json")) @@ FlatDir(Tenths(6), Num(0), Tenths(8))>>,
      <<("img_path" :> VStr("C:\\imgs\\x.png")) @@ FlatDir(Num(1), Num(2), Num(2)),
        ("img_path" :> VStr("imgs/Other.json")) @@ FlatDir(Tenths(6), Num(0), Tenths(8)),
        ("img_path" :> VNone) @@ FlatDir(Num(0), Num(3), Num(4))>> }

\* runs that stage the images of AssetSamples
InitAssetInputs ==
    /\ pickle = "ok"
    /\ args = DefaultArgs("points.pkl", FALSE)
    /\ csv = "ok"
    /\ csv_rows = <<QualityRow("plots/Other.json", "1", "1", "1")>>
    /\ all_data \in AssetSamples
    /\ img_src \in {"missing", "ok"}
    /\ img_files \in (IF img_src = "ok" THEN WalkOrders ELSE {<<>>})

Init ==
    /\ InitNoSamples \/ InitJoinInputs \/ InitAssetInputs
    /\ probe = NoProbe
    /\ MainStart

Spec == Init /\ [][Next]_vars

\* runs over reports of RowSet
InitLoadInputs ==
    /\ pickle = "ok"
    /\ args \in {DefaultArgs(f, FALSE) : f \in {"points_ev-25.pkl", "points.pkl"}}
    /\ csv \in {"none", "missing", "unreadable", "ok"}
    /\ csv_rows \in (IF csv = "ok" THEN SeqsUpTo(RowSet, MaxRows) ELSE {<<>>})
    /\ all_data \in LoadSamples
    /\ img_src = "none" /\ img_files = <<>>

InitLoad ==
    /\ InitNoSamples \/ InitLoadInputs \/ InitAssetInputs
    /\ probe = NoProbe
    /\ MainStart

SpecLoad == InitLoad /\ [][Next]_vars

\* the report of the runs over DirSampleSet
DirRows == <<QualityRow("Artist_Name_ev-25_points.json", "2", "1", "1")>>

\* runs over samples of DirSampleSet
InitDirInputs ==
    /\ pickle = "ok"
    /\ args \in {DefaultArgs("points_ev-25.pkl", n) : n \in BOOLEAN}
    /\ csv \in {"none", "missing", "unreadable", "ok"}
    /\ csv_rows = (IF csv = "ok" THEN DirRows ELSE <<>>)
    /\ all_data \in SeqsUpTo(DirSampleSet, MaxDirSamples)
    /\ img_src = "none" /\ img_files = <<>>

InitDir ==
    /\ InitNoSamples \/ InitDirInputs \/ InitAssetInputs
    /\ probe = NoProbe
    /\ MainStart

SpecDir == InitDir /\ [][Next]_vars

(***************************************************************************)
(* The functions applied on their own                                      *)
(***************************************************************************)

\* main() is not running
MainIdle ==
    /\ pc = "idle"
    /\ pickle = "missing" /\ csv = "none" /\ csv_rows = <<>>
    /\ args = DefaultArgs("points.pkl", FALSE)
    /\ all_data = <<>> /\ input_data = <<>>
    /\ desired_ev = ""
    /\ conf_map = EmptyMap /\ conf_src = EmptyMap
    /\ row_i = 1 /\ kept = 0 /\ skipped_ev = 0 /\ skipped_rank = 0
    /\ join_i = 1 /\ hit = 0 /\ miss = 0
    /\ xyz_i = 1 /\ used = <<>> /\ used_idx = <<>> /\ skipped = 0
    /\ out_dir_made = FALSE /\ staged = FALSE /\ index_written = FALSE
    /\ img_src = "none" /\ img_files = <<>>
    /\ idx = EmptyMap /\ walk_i = 1
    /\ needed = <<>> /\ look_i = 1 /\ copied = 0 /\ missing = 0 /\ staged_files = {}

main_vars == <<pc, args, pickle, csv, csv_rows, all_data, input_data, desired_ev,
               conf_map, conf_src, row_i, kept, skipped_ev, skipped_rank, join_i, hit,
               miss, xyz_i, used, used_idx, skipped, out_dir_made, staged, index_written,
               img_src, img_files, idx, walk_i, needed, look_i, copied, missing,
               staged_files>>

\* ---- _normalize_id_and_ev ----

\* most pieces an identifier is put together from
MaxPieces == 3

Pieces ==
    {"R2", "rank ", "r1", ": ", "_", "-", "Artist", " Name", "_ev-25", "ev-50",
     "_points", ".json", ".GZ", "/", "3", " "}

RECURSIVE Concat(_)
Concat(ps) == IF ps = <<>> THEN "" ELSE Head(ps) \o Concat(Tail(ps))

\* rank prefixes that hold the letter r
RankPrefixes == {"", "R2: ", "r1_", "rank r3-", "RANK  R3 :-_"}

PlainIds == {"Artist_Name", "paintingname"}

\* <rank prefix><id>_<ev>_points.json, as <<raw, id, ev>>
Decorated ==
    {<<p \o i \o "_" \o e \o "_points.json", i, e>> :
        p \in RankPrefixes, i \in PlainIds, e \in {EvTags[k] : k \in 1..Len(EvTags)}}

\* identifiers on which the order of the steps shows, as <<raw, base_id, ev>>
OrderExamples ==
    { <<"R2: Artist_Name_ev-25_points.json", "Artist_Name", "ev-25">>,
      <<"plots/R2: Artist_Name_ev-25_points.json.gz", "Artist_Name", "ev-25">>,
      <<"Artist.GZ.json", "Artist.GZ", "">>,
      <<"Artist.json_points", "Artist.json", "">>,
      <<"Artist_points_ev-25", "Artist_points", "ev-25">>,
      <<"Artist_ev-25_ev-50", "Artist_ev-25", "ev-25">>,
      <<"Rank R1: Artist Name_EV-50_POINTS.JSON.GZ", "Artist_Name", "">> }

CanonExamples ==
    {e[1] : e \in Decorated \cup OrderExamples}
        \cup {"R2_paintingname", "rank 3-paintingname", "3-paintingname",
              "plots/ev-25/R2_Artist_points.json", "ev-50/Artist_ev-00"}

CanonInputs ==
    {Concat(ps) : ps \in UNION {[1..k -> Pieces] : k \in 0..MaxPieces}} \cup CanonExamples

NoId == [base_id |-> "", ev |-> ""]

InitCanon ==
    /\ MainIdle
    /\ probe \in {[fn |-> "canon", raw |-> s, step |-> 0, out |-> NoId, again |-> NoId] :
                    s \in CanonInputs}

\* canonicalize(raw)
Canonicalize ==
    /\ probe.fn = "canon" /\ probe.step = 0
    /\ probe' = [probe EXCEPT !.step = 1, !.out = normalize_id_and_ev(probe.raw)]
    /\ UNCHANGED main_vars

\* canonicalize(canonicalize(raw)[0])
Recanonicalize ==
    /\ probe.fn = "canon" /\ probe.step = 1
    /\ probe' = [probe EXCEPT !.step = 2, !.again = normalize_id_and_ev(probe.out.base_id)]
    /\ UNCHANGED main_vars

NextCanon == Canonicalize \/ Recanonicalize

SpecCanon == InitCanon /\ [][NextCanon]_vars

\* ---- confidence_from_row ----

Absent == "<absent>"

FracInputs == {"0", "1", "0.5", "-0.5", "1.5", " 0.25", "nan", "inf", "abc", Absent}
MaeInputs == {"0", "1", "1.5", "4.5", "8", "9", "-3", "nan", "inf", "", Absent}
ThresholdInputs ==
    { <<Fin(1, 1), Fin(8, 1)>>, <<Fin(1, 1), Fin(2, 1)>>, <<Fin(8, 1), Fin(1, 1)>>,
      <<Fin(8, 1), Fin(8, 1)>>, <<NaN, Fin(8, 1)>>, <<Fin(1, 1), NaN>>,
      <<Fin(1, 1), Inf(1)>> }

\* a CSV row with the two score columns, a column left out when Absent
ScoreRow(frac, mae) ==
    [k \in {kk \in {"inlier_weight_frac", "mae_in_deg_weighted"} :
              (IF kk = "inlier_weight_frac" THEN frac ELSE mae) # Absent}
        |-> VStr(IF k = "inlier_weight_frac" THEN frac ELSE mae)]

InitScore ==
    /\ MainIdle
    /\ probe \in {[fn |-> "score", row |-> ScoreRow(f, m), E_good |-> e[1], E_bad |-> e[2],
                   step |-> 0, out |-> Fin(0, 1)] :
                    f \in FracInputs, m \in MaeInputs, e \in ThresholdInputs}

Score ==
    /\ probe.fn = "score" /\ probe.step = 0
    /\ probe' = [probe EXCEPT !.step = 1,
                    !.out = confidence_from_row(probe.row, probe.E_good, probe.E_bad)]
    /\ UNCHANGED main_vars

NextScore == Score

SpecScore == InitScore /\ [][NextScore]_vars

\* ---- extract_direction_components ----

NoKeys == <<>>

\* what a record holds under dir_x/dir_y/dir_z, vx/vy/vz, "dir", "L", "direction"
FlatDirInputs ==
    { NoKeys,
      FlatDir(Tenths(6), Num(0), Tenths(8)),
      FlatDir(Num(1), VStr("abc"), Num(0)),
      FlatDir(Num(1), VNone, Num(0)),
      ("dir_x" :> Num(1)) @@ ("dir_y" :> Num(0)) }
FlatVInputs ==
    { NoKeys,
      ("vx" :> Num(1)) @@ ("vy" :> VStr("2")) @@ ("vz" :> Num(2)),
      ("vx" :> VList(<<Num(1)>>)) @@ ("vy" :> Num(2)) @@ ("vz" :> Num(2)) }
DirKeyInputs ==
    { NoKeys,
      "dir" :> VList(<<Num(1), Num(0), Num(0)>>),
      "dir" :> VList(<<Num(1), Num(0)>>),
      "dir" :> VList(<<Num(1), VStr("up"), Num(0), Num(7)>>),
      "dir" :> VDict(("x" :> Num(0)) @@ ("y" :> Num(1)) @@ ("z" :> Num(0))),
      "dir" :> VDict(("x" :> VStr("a")) @@ ("y" :> Num(1)) @@ ("z" :> Num(0))
                     @@ ("dir_x" :> Num(2)) @@ ("dir_y" :> Num(1)) @@ ("dir_z" :> Num(2))),
      "dir" :> Num(3) }
LKeyInputs ==
    { NoKeys,
      "L" :> VList(<<Num(0), Num(3), Num(4)>>),
      "L" :> VDict(("vx" :> Num(0)) @@ ("vy" :> Num(0)) @@ ("vz" :> Num(1))) }
DirectionKeyInputs ==
    { NoKeys,
      "direction" :> VList(<<VStr("0.5"), Num(0), Num(0)>>),
      "direction" :> VDict(("x" :> Num(2)) @@ ("y" :> Num(0)) @@ ("z" :> Num(0))) }

ExtractInputs ==
    { a @@ b @@ c @@ e @@ f :
        a \in FlatDirInputs, b \in FlatVInputs, c \in DirKeyInputs,
        e \in LKeyInputs, f \in DirectionKeyInputs }

InitExtract ==
    /\ MainIdle
    /\ probe \in {[fn |-> "extract", d |-> d, step |-> 0, out |-> NoDirection] :
                    d \in ExtractInputs}

Extract ==
    /\ probe.fn = "extract" /\ probe.step = 0
    /\ probe' = [probe EXCEPT !.step = 1, !.out = extract_direction_components(probe.d)]
    /\ UNCHANGED main_vars

NextExtract == Extract

SpecExtract == InitExtract /\ [][NextExtract]_vars

(***************************************************************************)
(* Claims                                                                  *)
(***************************************************************************)

Min(S) == CHOOSE i \in S : \A j \in S : i <= j

\* the candidates of sample d, by position, that are non-empty, canonicalize
\* to a non-empty base id and have (base id, rank) as a key of table cm
HittingCandidates(d, cm, rk) ==
    {i \in 1..Len(CandidateKeys) :
        LET c == Get(d, CandidateKeys[i], VStr(""))
        IN  /\ Truthy(c)
            /\ normalize_id_and_ev(c.s).base_id # ""
            /\ <<normalize_id_and_ev(c.s).base_id, rk>> \in DOMAIN cm}

\* the confidence the join contract attaches to d
ContractConfidence(d, cm, rk) ==
    IF HittingCandidates(d, cm, rk) = {} THEN VNone
    ELSE LET c == Get(d, CandidateKeys[Min(HittingCandidates(d, cm, rk))], VStr(""))
         IN  VNum(cm[<<normalize_id_and_ev(c.s).base_id, rk>>])

\* the rank of the join contract on the ranks the samples carry: absent or
\* unparsable is 1, 2 and "2.0" are 2, 5/2 truncates to 2
ContractRank(d) ==
    IF ~Has(d, "rank") THEN 1
    ELSE IF d["rank"] \in {Num(2), VStr("2.0"), VNum(Fin(5, 2))} THEN 2
    ELSE 1

JoinedSamples == 1..(join_i - 1)

\* C1: every joined sample carries the table value of its first candidate (in
\* the order painting_info, painting_rank_id, pose_info, img_path, file) that
\* is non-empty, has a non-empty base id and whose (base id, rank) is a key of
\* the table, and null when there is none; with a table holding only
\* ("Artist_Name", 2), painting_info = "Artist_Name" gets the value for rank 2
\* and "2.0" and null for rank 1.
C1_JoinFirstHit ==
    \A i \in JoinedSamples :
        LET d == input_data[i]
            conf == all_data[i]["confidence"]
        IN  /\ conf = ContractConfidence(d, conf_map, ContractRank(d))
            /\ (DOMAIN conf_map = {<<"Artist_Name", 2>>}
                  /\ Get(d, "painting_info", VNone) = VStr("Artist_Name")
                  /\ Has(d, "rank"))
               => /\ d["rank"] \in {Num(2), VStr("2.0")}
                       => conf = VNum(conf_map[<<"Artist_Name", 2>>])
                  /\ d["rank"] = Num(1) => conf = VNone

\* C1 witness: a joined sample whose first candidate misses and two later
\* candidates hit entries of different value
C1_Witness ==
    \E i \in JoinedSamples :
        LET d == input_data[i]
            hits == HittingCandidates(d, conf_map, ContractRank(d))
        IN  /\ Cardinality(hits) >= 2
            /\ Min(hits) > 1
            /\ \E h \in hits :
                  conf_map[<<normalize_id_and_ev(d[CandidateKeys[h]].s).base_id, 2>>]
                      # all_data[i]["confidence"].q

\* C2: canonicalizing the base id of a canonicalized string gives that base
\* id again.
C2_CanonIdempotent ==
    (probe.fn = "canon" /\ probe.step = 2) => probe.again.base_id = probe.out.base_id

FlatHits(d) == {i \in 1..Len(DIR_KEY_CANDIDATES) : Found(FlatAttempt(d, i))}
SingleHits(d) == {i \in 1..Len(SINGLE_VEC_CANDIDATES) : Found(SingleAttempt(d, i))}

ExampleFlat == FlatDir(Tenths(6), Num(0), Tenths(8))
ExampleSingle == "dir" :> VList(<<Num(1), Num(0), Num(0)>>)
HasAll(d, part) == \A k \in DOMAIN part : Has(d, k) /\ d[k] = part[k]

\* C3: the extractor returns the first flat key triple that fully succeeds;
\* only when no flat triple does, the first single-key vector field that
\* does; only when neither does, a nested-object candidate or nothing.  A
\* record with dir_x=0.6, dir_y=0, dir_z=0.8 and dir=[1,0,0] gives
\* (0.6, 0, 0.8) from "dir_x,dir_y,dir_z".
C3_ExtractionPriority ==
    (probe.fn = "extract" /\ probe.step = 1) =>
        LET d == probe.d
            out == probe.out
        IN  /\ FlatHits(d) # {} => out = FlatAttempt(d, Min(FlatHits(d)))
            /\ (FlatHits(d) = {} /\ SingleHits(d) # {})
                  => out = SingleAttempt(d, Min(SingleHits(d)))
            /\ (FlatHits(d) = {} /\ SingleHits(d) = {})
                  => \/ out = NoDirection
                     \/ \E i \in 1..Len(NESTED_ROOTS), j \in 1..Len(NESTED_CANDS) :
                           Found(NestedAttempt(d, i, j)) /\ out = NestedAttempt(d, i, j)
            /\ (HasAll(d, ExampleFlat) /\ HasAll(d, ExampleSingle))
                  => out = [x |-> Fin(6, 10), y |-> Fin(0, 1), z |-> Fin(8, 10),
                            src |-> "dir_x,dir_y,dir_z"]

\* C3 witness: the record of the example has been extracted
C3_Witness ==
    /\ probe.fn = "extract" /\ probe.step = 1
    /\ HasAll(probe.d, ExampleFlat) /\ HasAll(probe.d, ExampleSingle)
    /\ probe.out.src = "dir_x,dir_y,dir_z"

Zero == Fin(0, 1)
One == Fin(1, 1)

\* d carries a confidence that is null or a number of [0, 1]
ConfidenceNullOrUnit(d) ==
    /\ Has(d, "confidence")
    /\ \/ d["confidence"] = VNone
       \/ /\ d["confidence"].t = "num"
          /\ FLe(Zero, d["confidence"].q) /\ FLe(d["confidence"].q, One)

\* C4: when the run is done, every sample of the output collection has a
\* confidence field that is null or a number within [0, 1], whatever the run
\* configuration and the fields the sample came with.
C4_OutputConfidenceBounded ==
    pc = "done" => \A i \in 1..Len(used) : ConfidenceNullOrUnit(used[i])

\* C5: the score is a number of [0, 1] for every inlier fraction, error and
\* pair of thresholds, nan and infinite ones included.
C5_ScoreInUnitInterval ==
    (probe.fn = "score" /\ probe.step = 1) =>
        /\ probe.out.k = "fin"
        /\ FLe(Zero, probe.out) /\ FLe(probe.out, One)

\* C5 witness: a fraction above 1 in threshold mode (E_bad <= E_good), where
\* the unclamped product is 1.5
C5_Witness ==
    /\ probe.fn = "score" /\ probe.step = 1
    /\ probe.row = ScoreRow("1.5", "0")
    /\ FLe(probe.E_bad, probe.E_good)
    /\ probe.out = One

\* ---- C6, C7: direction filter ----

\* no candidate source of d yields a vector
NoCandidate(d) == ~Found(extract_direction_components(d))

\* the raw vector of d has a magnitude that is not finite or is below epsilon
Degenerate(d) ==
    LET r == extract_direction_components(d)
        n == VecNorm(r.x, r.y, r.z)
    IN  Found(r) /\ (~IsFinite(n) \/ BelowEps(n))

\* the samples the direction loop has been through
Processed == 1..(xyz_i - 1)

Kept == {used_idx[k] : k \in 1..Len(used_idx)}

\* the output keeps the input order and the two counters add up
OrderAndCount ==
    /\ Len(used) = Len(used_idx)
    /\ \A k \in 1..Len(used_idx) : used_idx[k] \in Processed /\ used[k] = all_data[used_idx[k]]
    /\ \A k \in 1..(Len(used_idx) - 1) : used_idx[k] < used_idx[k + 1]
    /\ Len(used) + skipped = xyz_i - 1

\* three inputs, exactly one of them without a direction, the others sound
ExampleOfThree ==
    /\ Len(input_data) = 3
    /\ Cardinality({i \in 1..3 : NoCandidate(input_data[i])}) = 1
    /\ \A i \in 1..3 : ~Degenerate(input_data[i])

\* C6 as stated: a sample is dropped exactly when no candidate source yields a
\* vector or its magnitude is non-finite or below epsilon; the rest is kept in
\* input order and skipped counts the dropped.
C6_DroppedIffNoDirectionOrDegenerate ==
    /\ OrderAndCount
    /\ \A i \in Processed :
          (i \notin Kept) <=> (NoCandidate(input_data[i]) \/ Degenerate(input_data[i]))

\* C6 amended: a sample is dropped exactly when no candidate source yields a
\* vector or, normalization being enabled, its magnitude is non-finite or
\* below epsilon; the kept samples keep the input order, skipped counts the
\* dropped, and three inputs of which one has no direction give two outputs
\* and one skipped.
C6_DroppedIffNoDirectionOrNormalizedDegenerate ==
    /\ OrderAndCount
    /\ \A i \in Processed :
          (i \notin Kept) <=>
              \/ NoCandidate(input_data[i])
              \/ ~args.no_normalize /\ Degenerate(input_data[i])
    /\ (ExampleOfThree /\ xyz_i = 4) => (Len(used) = 2 /\ skipped = 1)

\* C6 witness: the example of three has gone through the loop with
\* normalization enabled
C6_Witness ==
    /\ pc = "done" /\ ~args.no_normalize
    /\ ExampleOfThree
    /\ Len(used) = 2 /\ skipped = 1

SumSq(d) ==
    FAdd(FAdd(FMul(d["x"].q, d["x"].q), FMul(d["y"].q, d["y"].q)), FMul(d["z"].q, d["z"].q))

\* the stored (x, y, z) of d has unit length, up to the precision of the root
UnitLength(d) ==
    /\ Has(d, "x") /\ Has(d, "y") /\ Has(d, "z")
    /\ d["x"].t = "num" /\ d["y"].t = "num" /\ d["z"].t = "num"
    /\ IsFinite(SumSq(d))
    /\ LET e == FSub(SumSq(d), One)
       IN  FLe(Fin(Abs(e.n), e.d), Fin(3, SqrtPrec))

\* C7 as stated: every sample of the output has a direction of unit length.
C7_OutputUnitLength ==
    pc = "done" => \A k \in 1..Len(used) : UnitLength(used[k])

\* C7 amended: when normalization is enabled, every sample of the output has
\* a direction of unit length.
C7_NormalizedOutputUnitLength ==
    (pc = "done" /\ ~args.no_normalize) => \A k \in 1..Len(used) : UnitLength(used[k])

\* C7 witness: a vector that was not of unit length has been normalized
C7_Witness ==
    /\ pc = "done" /\ ~args.no_normalize
    /\ \E k \in 1..Len(used) :
          /\ used[k]["dir_norm_raw"] # VNone
          /\ used[k]["dir_norm_raw"].q # One
          /\ UnitLength(used[k])

\* ---- C8: the fatal condition ----

RunEnded == pc \in {"done", "error", "crashed", "no_pickle", "bad_pickle"}

\* C8: a run with no surviving sample ends in the error without staging or
\* writing anything, and this is the only way a run whose samples were
\* loaded ends without the page.
C8_OnlyFatalCondition ==
    /\ pc = "error" => (Len(used) = 0 /\ ~staged /\ ~index_written)
    /\ (RunEnded /\ pc \notin {"no_pickle", "bad_pickle"} /\ ~index_written) => pc = "error"

\* ---- C9: the exposure filter of the table ----

RowCanon(i) == normalize_id_and_ev(PyStr(Get(csv_rows[i], "file", VStr(""))))

\* the rank of row i is a finite number (rank "0" when the column is absent)
RankParses(i) == ToFloat(Get(csv_rows[i], "rank", VStr("0"))).k = "fin"

RowsRead == 1..(row_i - 1)

\* C9: with a desired exposure, every entry of the table comes from a row of
\* that exposure (no tag does not pass), and skipped_ev counts the rows of a
\* parsable rank that were discarded for their exposure.
C9_TableOnlyDesiredExposure ==
    desired_ev # "" =>
        /\ \A key \in DOMAIN conf_map :
              /\ conf_src[key] \in RowsRead
              /\ RowCanon(conf_src[key]).ev = desired_ev
              /\ key[1] = RowCanon(conf_src[key]).base_id
        /\ \A i \in RowsRead :
              RowCanon(i).ev # desired_ev => \A key \in DOMAIN conf_map : conf_src[key] # i
        /\ skipped_ev = Cardinality({i \in RowsRead : RankParses(i) /\ RowCanon(i).ev # desired_ev})

\* C9 witness: the table is loaded for ev-25; a row of another exposure was
\* discarded and a row of ev-25 is in the table
C9_Witness ==
    /\ pc = "join" /\ desired_ev = "ev-25"
    /\ skipped_ev >= 1
    /\ \E i \in RowsRead : RankParses(i) /\ RowCanon(i).ev = "ev-50"
    /\ DOMAIN conf_map # {}

\* ---- C10: the score as a product ----

Clamp01(q) == IF FLt(q, Zero) THEN Zero ELSE IF FGt(q, One) THEN One ELSE q

\* 1 - clamp((mae - E_good) / (E_bad - E_good)), a step at E_good if E_bad <= E_good
RampConf(mae, g, b) ==
    IF FLe(b, g) THEN (IF FLe(mae, g) THEN One ELSE Zero)
    ELSE FSub(One, Clamp01(FDiv(FSub(mae, g), FSub(b, g))))

ScoredFrac == FloatField(probe.row, "inlier_weight_frac", Zero)

ScoredMae == FloatField(probe.row, "mae_in_deg_weighted", Fin(MaeSentinel, 1))

FiniteScoreInputs ==
    /\ IsFinite(ScoredFrac) /\ IsFinite(ScoredMae)
    /\ IsFinite(probe.E_good) /\ IsFinite(probe.E_bad)

\* C10: for finite inputs the score is clamp01(frac * mae_conf), mae_conf a
\* ramp from 1 at E_good down to 0 at E_bad, or a step at E_good when
\* E_bad <= E_good; with frac = 1 and E_good < E_bad it is 1 at E_good, 0 at
\* E_bad and 0.5 midway.
C10_ScoreIsClampedProduct ==
    (probe.fn = "score" /\ probe.step = 1 /\ FiniteScoreInputs) =>
        /\ probe.out = Clamp01(FMul(ScoredFrac, RampConf(ScoredMae, probe.E_good, probe.E_bad)))
        /\ (ScoredFrac = One /\ FLt(probe.E_good, probe.E_bad)) =>
              /\ ScoredMae = probe.E_good => probe.out = One
              /\ ScoredMae = probe.E_bad => probe.out = Zero
              /\ FAdd(ScoredMae, ScoredMae) = FAdd(probe.E_good, probe.E_bad)
                    => probe.out = Fin(1, 2)

\* C10 witness: frac 1 and an error midway between the thresholds score 0.5
C10_Witness ==
    /\ probe.fn = "score" /\ probe.step = 1
    /\ ScoredFrac = One
    /\ FLt(probe.E_good, probe.E_bad)
    /\ FAdd(ScoredMae, ScoredMae) = FAdd(probe.E_good, probe.E_bad)
    /\ probe.out = Fin(1, 2)

\* ---- C11..C13: the canonicalizer ----

Canonicalized == probe.fn = "canon" /\ probe.step >= 1

\* C11: 'R2_paintingname' and 'rank 3-paintingname' both canonicalize to the
\* base id 'paintingname': the digit of the rank prefix need not be preceded
\* by the letter r.
C11_RankPrefixStripped ==
    (Canonicalized /\ probe.raw \in {"R2_paintingname", "rank 3-paintingname", "3-paintingname"})
        => probe.out.base_id = "paintingname"

\* the first of the three tags, in the listed order, that occurs in s
FirstTagIn(s) ==
    IF Contains(s, "ev-00") THEN "ev-00"
    ELSE IF Contains(s, "ev-25") THEN "ev-25"
    ELSE IF Contains(s, "ev-50") THEN "ev-50"
    ELSE ""

\* C12: the exposure tag of canonicalize(raw) is the first of ev-00, ev-25,
\* ev-50 that occurs anywhere in raw, directory components included, and ""
\* when none occurs.
C12_TagFromWholeInput ==
    Canonicalized => probe.out.ev = FirstTagIn(probe.raw)

\* C13: the steps apply in the order final path segment, .gz, .json,
\* _points, one _ev-XX suffix, rank prefix, cleanup: an identifier decorated
\* as <rank prefix><id>_<ev>_points.json gives (id, ev), and the identifiers
\* on which another order would show give what this order gives.
C13_StepsInOrder ==
    Canonicalized =>
        \A e \in Decorated \cup OrderExamples :
            probe.raw = e[1] => probe.out = [base_id |-> e[2], ev |-> e[3]]

\* C13 witness: the example of the specification has been canonicalized
C13_Witness ==
    /\ Canonicalized
    /\ probe.raw = "R2: Artist_Name_ev-25_points.json"
    /\ probe.out = [base_id |-> "Artist_Name", ev |-> "ev-25"]

\* ---- C14: unparsable components ----

Parses(v) == ToFloat(v).k # "err"

FlatPresent(d, i) == \A k \in 1..3 : Has(d, DIR_KEY_CANDIDATES[i][k])

FlatParses(d, i) == FlatPresent(d, i) /\ \A k \in 1..3 : Parses(d[DIR_KEY_CANDIDATES[i][k]])

SinglePresent(d, i) ==
    /\ Has(d, SINGLE_VEC_CANDIDATES[i])
    /\ d[SINGLE_VEC_CANDIDATES[i]].t = "list"
    /\ Len(d[SINGLE_VEC_CANDIDATES[i]].l) >= 3

SingleParses(d, i) ==
    SinglePresent(d, i) /\ \A k \in 1..3 : Parses(d[SINGLE_VEC_CANDIDATES[i]].l[k])

NestedPresent(d, i, j) ==
    /\ Has(d, NESTED_ROOTS[i])
    /\ d[NESTED_ROOTS[i]].t = "dict"
    /\ \A k \in 1..3 : Has(d[NESTED_ROOTS[i]].m, NESTED_CANDS[j][k])

NestedParses(d, i, j) ==
    NestedPresent(d, i, j) /\ \A k \in 1..3 : Parses(d[NESTED_ROOTS[i]].m[NESTED_CANDS[j][k]])

FlatOnes == 1..Len(DIR_KEY_CANDIDATES)
SingleOnes == 1..Len(SINGLE_VEC_CANDIDATES)
NestedOnes == (1..Len(NESTED_ROOTS)) \X (1..Len(NESTED_CANDS))

AnySucceeds(d) ==
    \/ \E i \in FlatOnes : FlatParses(d, i)
    \/ \E i \in SingleOnes : SingleParses(d, i)
    \/ \E p \in NestedOnes : NestedParses(d, p[1], p[2])

\* some candidate has its keys and a component that does not parse
SomeDisqualified(d) ==
    \/ \E i \in FlatOnes : FlatPresent(d, i) /\ ~FlatParses(d, i)
    \/ \E i \in SingleOnes : SinglePresent(d, i) /\ ~SingleParses(d, i)
    \/ \E p \in NestedOnes : NestedPresent(d, p[1], p[2]) /\ ~NestedParses(d, p[1], p[2])

FlatSrc(i) ==
    DIR_KEY_CANDIDATES[i][1] \o "," \o DIR_KEY_CANDIDATES[i][2] \o "," \o DIR_KEY_CANDIDATES[i][3]

\* C14: a candidate whose keys are present but with a component that does
\* not parse is passed over and the search goes on, in the same stage and
\* then the later ones; (null, null, null, 'no_direction_keys_found') is
\* returned exactly when no candidate of any stage fully succeeds.
C14_UnparsableCandidatePassedOver ==
    (probe.fn = "extract" /\ probe.step = 1) =>
        LET d == probe.d
            out == probe.out
        IN  /\ (out = NoDirection) <=> ~AnySucceeds(d)
            /\ AnySucceeds(d) =>
                  /\ out.x.k # "err" /\ out.y.k # "err" /\ out.z.k # "err"
                  /\ out.src # "no_direction_keys_found"
            /\ \A i \in FlatOnes :
                  (FlatParses(d, i) /\ \A h \in 1..(i - 1) : ~FlatParses(d, h))
                      => out.src = FlatSrc(i)
            /\ \A i \in SingleOnes :
                  (/\ \A h \in FlatOnes : ~FlatParses(d, h)
                   /\ SingleParses(d, i) /\ \A h \in 1..(i - 1) : ~SingleParses(d, h))
                      => out.src = SINGLE_VEC_CANDIDATES[i]

\* C14 witness: dir_x, dir_y, dir_z are present with an unparsable dir_y, and
\* the direction comes from the later triple vx, vy, vz
C14_Witness ==
    /\ probe.fn = "extract" /\ probe.step = 1
    /\ FlatPresent(probe.d, 1) /\ ~FlatParses(probe.d, 1)
    /\ SomeDisqualified(probe.d)
    /\ probe.out.src = "vx,vy,vz"

\* ---- C15: defaults of the scorer ----

FieldMissingOrUnparsable(row, key) == ~Has(row, key) \/ ToFloat(row[key]).k = "err"

\* thresholds that are numbers below the sentinel
OrdinaryThresholds ==
    /\ IsFinite(probe.E_good) /\ IsFinite(probe.E_bad)
    /\ FLt(probe.E_good, Fin(MaeSentinel, 1)) /\ FLt(probe.E_bad, Fin(MaeSentinel, 1))

\* C15: a missing or unparsable inlier_weight_frac counts as 0, a missing or
\* unparsable mae_in_deg_weighted as the sentinel so that mae_conf is 0, and
\* either way the score is 0; the result is a number, never an error.
C15_MissingInputsScoreZero ==
    (probe.fn = "score" /\ probe.step = 1 /\ OrdinaryThresholds) =>
        /\ probe.out.k = "fin"
        /\ FieldMissingOrUnparsable(probe.row, "inlier_weight_frac") => probe.out = Zero
        /\ FieldMissingOrUnparsable(probe.row, "mae_in_deg_weighted") => probe.out = Zero

\* ---- C16, C18: the rows of the report ----

RowKept(i) == RankParses(i) /\ (desired_ev = "" \/ RowCanon(i).ev = desired_ev)

RowKey(i) == <<RowCanon(i).base_id, IntViaFloat(Get(csv_rows[i], "rank", VStr("0"))).n>>

RowScore(i) == confidence_from_row(csv_rows[i], args.conf_mae_good, args.conf_mae_bad)

\* C16: a row of unparsable rank is discarded and counted as skipped by
\* rank, and the rows after it are still read; every row read is counted
\* once, as kept, skipped by tag or skipped by rank, the rank being looked at
\* first; only kept rows have entries in the table.
C16_RowsCountedOnce ==
    /\ skipped_rank = Cardinality({i \in RowsRead : ~RankParses(i)})
    /\ skipped_ev = Cardinality({i \in RowsRead : RankParses(i) /\ ~RowKept(i)})
    /\ kept = Cardinality({i \in RowsRead : RowKept(i)})
    /\ kept + skipped_ev + skipped_rank = row_i - 1
    /\ \A key \in DOMAIN conf_map : \E i \in RowsRead : RowKept(i) /\ RowKey(i) = key
    /\ (csv = "ok" /\ pc \notin {"start", "csv", "rows"}) => row_i = Len(csv_rows) + 1

\* C16 witness: the load is over; a row of unparsable rank was followed by a
\* row that was kept
C16_Witness ==
    /\ pc = "join" /\ csv = "ok"
    /\ skipped_rank = 1 /\ kept >= 1
    /\ \E i, j \in RowsRead : i < j /\ ~RankParses(i) /\ RowKept(j)

\* the last kept row read so far that canonicalizes to key
LastKept(key) ==
    CHOOSE i \in RowsRead :
        /\ RowKept(i) /\ RowKey(i) = key
        /\ \A j \in RowsRead : (RowKept(j) /\ RowKey(j) = key) => j <= i

\* C18: the table holds one value per (base_id, rank): the score of the last
\* kept row, in file order, that canonicalizes to that key; skipped rows
\* leave no trace in it.
C18_LastWriteWins ==
    /\ DOMAIN conf_map = {RowKey(i) : i \in {j \in RowsRead : RowKept(j)}}
    /\ \A key \in DOMAIN conf_map : conf_map[key] = RowScore(LastKept(key))

\* C18 witness: two kept rows of one key and different scores were read
C18_Witness ==
    /\ pc = "join"
    /\ \E i, j \in RowsRead :
          /\ i < j /\ RowKept(i) /\ RowKept(j)
          /\ RowKey(i) = RowKey(j) /\ RowScore(i) # RowScore(j)
          /\ conf_map[RowKey(j)] = RowScore(j)

\* ---- C17: the report that cannot be read ----

\* C17: with the report missing or unreadable the run does not fail: the
\* table is empty and, once the join is over, every sample has a null
\* confidence.
C17_MissingReportEmptyTable ==
    csv \in {"missing", "unreadable"} =>
        /\ pc # "crashed"
        /\ conf_map = EmptyMap
        /\ pc \in {"xyz", "stage", "write", "done", "error"} =>
              \A i \in 1..Len(all_data) :
                  Has(all_data[i], "confidence") /\ all_data[i]["confidence"] = VNone

\* ---- C19: the filename index ----

Walked == 1..(walk_i - 1)

\* the first file of the walk so far that is named fn
FirstNamed(fn) ==
    CHOOSE k \in Walked :
        img_files[k][2] = fn /\ \A h \in Walked : img_files[h][2] = fn => k <= h

\* C19: at every point of the walk the index maps each file name met so far
\* to the full path of the first file of that name, so that an entry is
\* never overwritten or removed, and the last component of every stored path
\* is its key.
C19_FirstOccurrenceWins ==
    pc \in {"walk", "copy", "write", "done"} /\ img_src = "ok" =>
        /\ DOMAIN idx = {img_files[k][2] : k \in Walked}
        /\ \A fn \in DOMAIN idx :
              /\ idx[fn] = img_files[FirstNamed(fn)][1] \o "/" \o fn
              /\ Basename(idx[fn]) = fn

\* C19 witness: two files of one name were walked and the index holds the
\* path of the first
C19_Witness ==
    /\ pc = "copy" /\ img_src = "ok"
    /\ \E h, k \in Walked :
          /\ h < k /\ img_files[h][2] = img_files[k][2] /\ img_files[h][1] # img_files[k][1]
          /\ idx[img_files[k][2]] = img_files[h][1] \o "/" \o img_files[h][2]

\* ---- C20: build, then read ----

TableBuilt == pc \notin {"start", "csv", "rows"}

IndexBuilt == pc \in {"copy", "write", "done"}

\* no join lookup before the load is over, no index lookup before the walk is
BuiltBeforeRead ==
    /\ (join_i > 1 \/ hit + miss > 0) =>
          (TableBuilt /\ (csv = "ok" => row_i = Len(csv_rows) + 1))
    /\ (look_i > 1 \/ copied + missing > 0) =>
          (IndexBuilt /\ walk_i = Len(img_files) + 1)

\* a step leaves the built table and the built index as they are, and
\* writes the fields of a sample only as its one turn in the join or in the
\* direction loop
ReadOnlyAndOnce ==
    /\ TableBuilt => conf_map' = conf_map
    /\ IndexBuilt => idx' = idx
    /\ join_i' \in {join_i, join_i + 1} /\ xyz_i' \in {xyz_i, xyz_i + 1}
    /\ Len(all_data') = Len(all_data)
    /\ \A i \in 1..Len(all_data) :
          all_data'[i] # all_data[i] =>
              \/ pc = "join" /\ i = join_i /\ join_i' = join_i + 1
              \/ pc = "xyz" /\ i = xyz_i /\ xyz_i' = xyz_i + 1

\* C20: the table is loaded to the last row before the first join lookup and
\* the index is built to the last file before the first lookup in it; once
\* built, neither changes; the fields of each sample are written at most
\* once by the join and at most once by the direction loop.
C20_BuildThenRead == [] BuiltBeforeRead /\ [][ReadOnlyAndOnce]_vars

\* C20 witness: a run is done in which rows were loaded, a join lookup hit,
\* files were indexed and an image was looked up and copied
C20_Witness ==
    /\ pc = "done"
    /\ kept >= 1 /\ hit >= 1
    /\ Len(img_files) >= 1 /\ copied >= 1

\* ---- the generated page: rank buttons ----

\* most calls of toggleRank followed in one session of the page
MaxToggles == 8

\* the buttons rk1, rk2, rk3 of the page
RankButtons == {1, 2, 3}

\* lines 642-643 alone: membership of rk flipped
toggleRank_flip_only(S, rk) ==
    IF rk \in S THEN S \ {rk} ELSE S \cup {rk}

\* lines 642-644: flip membership of rk; put rk back if the set became empty
toggleRank(S, rk) ==
    LET flipped == IF rk \in S THEN S \ {rk} ELSE S \cup {rk}
    IN  IF Cardinality(flipped) = 0 THEN flipped \cup {rk} ELSE flipped

\* lines 633-639: the buttons that carry the class "off"
syncRankButtons(S) == {rk \in RankButtons : rk \notin S}

\* lines 680-685, 719-724: the ranks whose trace is filled from the points,
\* in the order the traces are made
makeTraces(S) == SelectSeq(<<3, 2, 1>>, LAMBDA rank : rank \in S)

\* line 632 and the page as first drawn (line 1009)
InitPage ==
    /\ MainIdle
    /\ probe = [fn |-> "page", enabledRanks |-> RankButtons, off |-> {},
                traces |-> makeTraces(RankButtons), calls |-> 0, rk |-> 0,
                before |-> RankButtons]

\* lines 641-647: a click on one of the rank buttons
ClickRank ==
    /\ probe.fn = "page" /\ probe.calls < MaxToggles
    /\ \E rk \in RankButtons :
          LET S == toggleRank(probe.enabledRanks, rk)
          IN  probe' = [probe EXCEPT !.enabledRanks = S,
                                     !.off = syncRankButtons(S),
                                     !.traces = makeTraces(S),
                                     !.calls = probe.calls + 1,
                                     !.rk = rk,
                                     !.before = probe.enabledRanks]
    /\ UNCHANGED main_vars

NextPage == ClickRank

SpecPage == InitPage /\ [][NextPage]_vars

\* ---- C21: the frame of the enrichment ----

DirectionFields == {"x", "y", "z", "dir_norm_raw", "dir_src_keys"}

EnrichmentFields == DirectionFields \cup {"confidence"}

\* a and b agree on key k: both lack it or both hold the same value
SameOn(a, b, k) ==
    /\ (k \in DOMAIN a) <=> (k \in DOMAIN b)
    /\ (k \in DOMAIN a) => a[k] = b[k]

\* C21: a sample differs from the record it was loaded as in no field but
\* confidence, x, y, z, dir_norm_raw and dir_src_keys; a sample dropped from
\* the output is not given x, y, z, dir_norm_raw or dir_src_keys; the records
\* of the output are the enriched samples.
C21_EnrichmentFrame ==
    /\ Len(all_data) = Len(input_data)
    /\ \A i \in 1..Len(all_data) :
          /\ \A k \in (DOMAIN all_data[i] \cup DOMAIN input_data[i]) \ EnrichmentFields :
                SameOn(all_data[i], input_data[i], k)
          /\ (i \in Processed /\ i \notin Kept) =>
                \A k \in DirectionFields : SameOn(all_data[i], input_data[i], k)
    /\ \A k \in 1..Len(used) : used[k] = all_data[used_idx[k]]

\* C21 witness: a run is done in which the join ran, a sample with fields of
\* its own was kept and enriched, and a sample with fields of its own was
\* dropped
C21_Witness ==
    /\ pc = "done" /\ csv = "ok"
    /\ \E i \in Kept :
          /\ DOMAIN input_data[i] \ EnrichmentFields # {}
          /\ "dir_src_keys" \notin DOMAIN input_data[i]
          /\ "dir_src_keys" \in DOMAIN all_data[i]
          /\ "confidence" \in DOMAIN all_data[i]
    /\ \E i \in Processed \ Kept :
          /\ DOMAIN input_data[i] # {}
          /\ "dir_src_keys" \notin DOMAIN all_data[i]

\* ---- C22: the enabled ranks ----

\* C22: after any sequence of toggleRank calls the enabled ranks are a
\* non-empty subset of {1, 2, 3}; a call flips the membership of its rank and
\* leaves the other ranks as they were, except that toggling off the only
\* enabled rank leaves it enabled.
C22_EnabledRanksNeverEmpty ==
    probe.fn = "page" =>
        /\ probe.enabledRanks # {}
        /\ probe.enabledRanks \subseteq {1, 2, 3}
        /\ probe.calls > 0 =>
              IF probe.before = {probe.rk}
              THEN probe.enabledRanks = {probe.rk}
              ELSE /\ (probe.rk \in probe.enabledRanks) <=> (probe.rk \notin probe.before)
                   /\ \A r \in {1, 2, 3} \ {probe.rk} :
                         (r \in probe.enabledRanks) <=> (r \in probe.before)

\* C22 witness: the only enabled rank was toggled and is still enabled
C22_Witness ==
    /\ probe.fn = "page" /\ probe.calls >= 3
    /\ probe.before = {probe.rk}
    /\ probe.enabledRanks = {probe.rk}
    /\ probe.off = {1, 2, 3} \ {probe.rk}

=============================================================================
